---- MODULE Spec2Model ----
(***************************************************************************)
(* Model of the deduplicator pipeline (src/server.rs, src/processor.rs):   *)
(* the discovery task, the size stage Processor::sizewise, the hash stage  *)
(* Processor::hashwise with its parallel per-file workers, the orchestrator*)
(* Server::start, and the sequential Processor::comparison_mode.           *)
(*                                                                         *)
(* Sizes are counted in pages, a file's content is its sequence of page    *)
(* values, and a path is a small integer whose display width is PathLen.   *)
(***************************************************************************)
EXTENDS Integers, Sequences, FiniteSets, TLC

\* ------------------------------------------------------------------ bounds
NFiles == 3          \* paths are 1..NFiles
MaxSize == 2         \* a file has 1..MaxSize pages
MaxByte == 1         \* a page value is in 0..MaxByte
MaxSeed == 0         \* the per-run seed is in 0..MaxSeed
MaxUnreadable == 1   \* at most this many files fail to hash

\* leading region hashed by initpages_hash, in pages (16,384 bytes scaled)
InitPages == 1

Paths == 1..NFiles
Seeds == 0..MaxSeed
Sources == {"Staging", "Target", "None"}

\* all contents: the page sequences of length 1..MaxSize
Contents == UNION {[1..n -> 0..MaxByte] : n \in 1..MaxSize}

VARIABLES
    content,            \* the file system: path -> page sequence
    strict,             \* Params.strict
    comparison_mode,    \* Params.comparison_mode
    seed,               \* the per-run seed
    todo,               \* files the discovery task has still to append
    qlock,              \* holder of the filequeue mutex: "free" or "scanner"
    filequeue,          \* Server.filequeue: Vec<FileInfo>
    scanner_finished,   \* AtomicBool
    sw_sort_finished,   \* AtomicBool
    sw_store,           \* Server.sw_duplicate_set: size -> Vec<FileInfo>
    hw_store,           \* Server.hw_duplicate_set: digest -> Vec<FileInfo>
    processed,          \* paths whose FileInfo is marked sw_processed
    max_file_path_len,  \* Server.max_file_path_len: AtomicU64
    sc_pc, sw_pc, hw_pc, main_pc,   \* position of each task and of start()
    keys,               \* hashwise: keys still to be visited in this round
    tasks,              \* hashwise: per-file workers in flight
    hashed,             \* history: how often each path's digest was computed
    files,              \* Processor.files, the input of comparison_mode
    unreadable,         \* paths whose hashing returns Err
    cmp_pc,             \* position inside Processor::comparison_mode
    idx,                \* comparison_mode: next index of the first loop
    duplicates_table,   \* comparison_mode: digest -> Vec<FileInfo>
    visited,            \* comparison_mode: groups the second loop has seen
    files_to_delete,    \* ComparisonResult.files_to_delete
    warnings            \* ComparisonResult.warnings

world == <<content, strict, comparison_mode, seed>>

cmpVars == <<files, unreadable, cmp_pc, idx, duplicates_table, visited,
             files_to_delete, warnings>>

pipeVars == <<todo, qlock, filequeue, scanner_finished, sw_sort_finished,
              sw_store, hw_store, processed, max_file_path_len,
              sc_pc, sw_pc, hw_pc, main_pc, keys, tasks, hashed>>

vars == <<world, pipeVars, cmpVars>>

\* ------------------------------------------------------------- FileInfo
FileInfo(p, src) == [path |-> p, source |-> src]

Size(p) == Len(content[p])

\* display width of a path (graphemes of the path string)
PathLen(p) == p

Min(a, b) == IF a < b THEN a ELSE b

\* injective encoding of a page sequence, the collision-free idealisation of
\* the 128-bit digest of those bytes
RECURSIVE Encode(_)
Encode(s) ==
    IF s = <<>> THEN 0
    ELSE Encode(SubSeq(s, 1, Len(s) - 1)) * (MaxByte + 2) + s[Len(s)] + 1

Digest(s, sd) == Encode(s) * (MaxSeed + 1) + sd

\* FileInfo::hash: digest of the whole content
Hash(p, sd) == Digest(content[p], sd)

\* FileInfo::initpages_hash: digest of the leading region only
InitpagesHash(p, sd) == Digest(SubSeq(content[p], 1, Min(InitPages, Size(p))), sd)

\* the two modes exchanged
FhashSwapped(p) == IF strict THEN InitpagesHash(p, seed) ELSE Hash(p, seed)

\* the digest the hash stage uses (processor.rs:73-76)
Fhash(p) == IF strict THEN Hash(p, seed) ELSE InitpagesHash(p, seed)

\* --------------------------------------------------------- map helpers
HasPath(fileset, p) == \E i \in 1..Len(fileset) : fileset[i].path = p

\* Upsert without the path check: append whenever the key exists
UpsertNoCheck(store, k, file) ==
    IF k \in DOMAIN store
    THEN [store EXCEPT ![k] = Append(@, file)]
    ELSE [x \in DOMAIN store \cup {k} |-> IF x = k THEN <<file>> ELSE store[x]]

\* Upsert that overwrites the entry instead of modifying it
UpsertReplace(store, k, file) ==
    [x \in DOMAIN store \cup {k} |-> IF x = k THEN <<file>> ELSE store[x]]

\* entry(k).and_modify(push unless path present).or_insert_with(vec![file])
Upsert(store, k, file) ==
    IF k \in DOMAIN store
    THEN IF HasPath(store[k], file.path)
         THEN store
         ELSE [store EXCEPT ![k] = Append(@, file)]
    ELSE [x \in DOMAIN store \cup {k} |-> IF x = k THEN <<file>> ELSE store[x]]

Range(seq) == {seq[i] : i \in 1..Len(seq)}

PathsOf(fileset) == {fileset[i].path : i \in 1..Len(fileset)}

Members(store) == UNION {PathsOf(store[k]) : k \in DOMAIN store}

\* FileInfo::is_sw_processed: the flag is seen through every copy of the
\* record, the one kept in the size map included
IsSwProcessed(file) == file.path \in processed

\* FileInfo::sw_processed: the set of marked files after marking path p
SwProcessed(p) == processed \cup {p}

\* a key filter that looks at the bucket's length only
QualifiesIgnoringProcessed(fileset) == Len(fileset) > 1

\* hashwise's key filter (processor.rs:49-55)
Qualifies(fileset) ==
    /\ ~ (\A i \in 1..Len(fileset) : IsSwProcessed(fileset[i]))
    /\ Len(fileset) > 1

EmptyMap == [x \in {} |-> <<>>]

\* ------------------------------------------------------------------ Init
\* the world w and a file at path n with content c
Extend(w, n, c) == [p \in DOMAIN w \cup {n} |-> IF p = n THEN c ELSE w[p]]

\* the files on disk: any set of paths 1..n, each with any content; paths
\* are numbered in the order of their content (discovery visits them in any
\* order)
RECURSIVE WorldsUpTo(_)
WorldsUpTo(n) ==
    IF n = 0 THEN {[p \in {} |-> <<>>]}
    ELSE LET W == WorldsUpTo(n - 1) IN
         W \cup UNION {{Extend(w, n, c) :
                          c \in {d \in Contents :
                                   \A p \in DOMAIN w : Encode(w[p]) <= Encode(d)}} :
                       w \in W}

Worlds == WorldsUpTo(NFiles)

\* a directory listing: the files of S in path order, tagged src
RECURSIVE Listing(_, _)
Listing(S, src) ==
    IF S = {} THEN <<>>
    ELSE LET p == CHOOSE x \in S : \A y \in S : x <= y
         IN  <<FileInfo(p, src)>> \o Listing(S \ {p}, src)

\* the comparison engine is not running
CmpOff ==
    /\ files = <<>>
    /\ cmp_pc = "idle"
    /\ idx = 0
    /\ duplicates_table = EmptyMap
    /\ visited = {}
    /\ files_to_delete = <<>>
    /\ warnings = <<>>

\* the comparison engine is not running and every file can be read
CmpIdle == CmpOff /\ unreadable = {}

\* Server::new (server.rs:25-34) and the flags of start (server.rs:72-73)
InitPipe ==
    /\ content \in Worlds
    /\ strict \in BOOLEAN
    /\ seed \in Seeds
    /\ qlock = "free"
    /\ sw_sort_finished = FALSE
    /\ sw_store = EmptyMap
    /\ hw_store = EmptyMap
    /\ processed = {}
    /\ max_file_path_len = 0
    /\ sw_pc = "pop"
    /\ hw_pc = "scan"
    /\ main_pc = "join"
    /\ keys = {}
    /\ tasks = [p \in {} |-> 0]
    /\ hashed = [p \in Paths |-> 0]

\* a run in which every file can be read
InitShared == InitPipe /\ CmpIdle

\* normal mode: the discovery task is scheduled (server.rs:94-103)
InitNormal ==
    /\ comparison_mode = FALSE
    /\ todo = DOMAIN content
    /\ filequeue = <<>>
    /\ scanner_finished = FALSE
    /\ sc_pc = "scan"

\* comparison mode: the queue is filled before the stages start
\* (server.rs:38-53), both directories together hold the files on disk
InitComparisonStagingOnly ==
    /\ comparison_mode = TRUE
    /\ todo = {}
    /\ \E S \in SUBSET DOMAIN content, T \in SUBSET DOMAIN content :
         /\ S \cup T = DOMAIN content
         /\ filequeue = Listing(S, "Staging")
    /\ scanner_finished = TRUE
    /\ sc_pc = "off"

InitComparison ==
    /\ comparison_mode = TRUE
    /\ todo = {}
    /\ \E S \in SUBSET DOMAIN content, T \in SUBSET DOMAIN content :
         /\ S \cup T = DOMAIN content
         /\ filequeue = Listing(S, "Staging") \o Listing(T, "Target")
    /\ scanner_finished = TRUE
    /\ sc_pc = "off"

Init == InitShared /\ (InitNormal \/ InitComparison)

\* ------------------------------------------------------- discovery task
\* Scanner::scan appends one file at a time under the queue's mutex
ScLock ==
    /\ sc_pc = "scan" /\ todo # {} /\ qlock = "free"
    /\ qlock' = "scanner"
    /\ UNCHANGED <<world, cmpVars, todo, filequeue, scanner_finished, sw_sort_finished,
                   sw_store, hw_store, processed, max_file_path_len,
                   sc_pc, sw_pc, hw_pc, main_pc, keys, tasks, hashed>>

ScPush ==
    /\ sc_pc = "scan" /\ qlock = "scanner"
    /\ \E p \in todo :
         /\ filequeue' = Append(filequeue, FileInfo(p, "None"))
         /\ todo' = todo \ {p}
    /\ qlock' = "free"
    /\ UNCHANGED <<world, cmpVars, scanner_finished, sw_sort_finished,
                   sw_store, hw_store, processed, max_file_path_len,
                   sc_pc, sw_pc, hw_pc, main_pc, keys, tasks, hashed>>

\* server.rs:101
ScFinish ==
    /\ sc_pc = "scan" /\ todo = {} /\ qlock = "free"
    /\ scanner_finished' = TRUE
    /\ sc_pc' = "done"
    /\ UNCHANGED <<world, cmpVars, todo, qlock, filequeue, sw_sort_finished,
                   sw_store, hw_store, processed, max_file_path_len,
                   sw_pc, hw_pc, main_pc, keys, tasks, hashed>>

\* ----------------------------------------------------------- size stage
\* a size stage that buckets every file under one key
SwKeyConst(file) == 1

\* the key of the size map entry (processor.rs:135)
SwKey(file) == Size(file.path)

\* a size stage that also records the width of the file it inserts
SwInsertWide ==
    /\ sw_pc = "pop" /\ qlock = "free" /\ filequeue # <<>>
    /\ LET file == filequeue[Len(filequeue)] IN
         /\ filequeue' = SubSeq(filequeue, 1, Len(filequeue) - 1)
         /\ sw_store' = Upsert(sw_store, SwKey(file), file)
         /\ max_file_path_len' = PathLen(file.path)
    /\ UNCHANGED <<world, cmpVars, todo, qlock, scanner_finished, sw_sort_finished,
                   hw_store, processed,
                   sc_pc, sw_pc, hw_pc, main_pc, keys, tasks, hashed>>

\* processor.rs:124-125 Ok(flist) => flist.pop() = Some(file), then 132-143
SwInsert ==
    /\ sw_pc = "pop" /\ qlock = "free" /\ filequeue # <<>>
    /\ LET file == filequeue[Len(filequeue)] IN
         /\ filequeue' = SubSeq(filequeue, 1, Len(filequeue) - 1)
         /\ sw_store' = Upsert(sw_store, SwKey(file), file)
    /\ UNCHANGED <<world, cmpVars, todo, qlock, scanner_finished, sw_sort_finished,
                   hw_store, processed, max_file_path_len,
                   sc_pc, sw_pc, hw_pc, main_pc, keys, tasks, hashed>>

\* processor.rs:124-125 Ok(flist) => flist.pop() = None
SwPopNone ==
    /\ sw_pc = "pop" /\ qlock = "free" /\ filequeue = <<>>
    /\ sw_pc' = "check"
    /\ UNCHANGED <<world, cmpVars, todo, qlock, filequeue, scanner_finished,
                   sw_sort_finished, sw_store, hw_store, processed,
                   max_file_path_len, sc_pc, hw_pc, main_pc, keys, tasks, hashed>>

\* processor.rs:126 Err(WouldBlock) => None; the position "blocked" is the
\* flag check of an iteration whose try_lock failed
SwWouldBlock ==
    /\ sw_pc = "pop" /\ qlock # "free"
    /\ sw_pc' = "blocked"
    /\ UNCHANGED <<world, cmpVars, todo, qlock, filequeue, scanner_finished,
                   sw_sort_finished, sw_store, hw_store, processed,
                   max_file_path_len, sc_pc, hw_pc, main_pc, keys, tasks, hashed>>

\* a size stage that polls its own completion flag
SwCheckOwnFlag ==
    /\ sw_pc \in {"check", "blocked"}
    /\ sw_pc' = IF sw_sort_finished THEN "exit" ELSE "pop"
    /\ UNCHANGED <<world, cmpVars, todo, qlock, filequeue, scanner_finished,
                   sw_sort_finished, sw_store, hw_store, processed,
                   max_file_path_len, sc_pc, hw_pc, main_pc, keys, tasks, hashed>>

\* processor.rs:145-151
SwCheckFinished ==
    /\ sw_pc \in {"check", "blocked"}
    /\ sw_pc' = IF scanner_finished THEN "exit" ELSE "pop"
    /\ UNCHANGED <<world, cmpVars, todo, qlock, filequeue, scanner_finished,
                   sw_sort_finished, sw_store, hw_store, processed,
                   max_file_path_len, sc_pc, hw_pc, main_pc, keys, tasks, hashed>>

\* server.rs:115
SwSetFinished ==
    /\ sw_pc = "exit"
    /\ sw_sort_finished' = TRUE
    /\ sw_pc' = "done"
    /\ UNCHANGED <<world, cmpVars, todo, qlock, filequeue, scanner_finished,
                   sw_store, hw_store, processed, max_file_path_len,
                   sc_pc, hw_pc, main_pc, keys, tasks, hashed>>

\* ----------------------------------------------------------- hash stage
\* processor.rs:49-57
HwScan ==
    /\ hw_pc = "scan"
    /\ LET ks == {k \in DOMAIN sw_store : Qualifies(sw_store[k])} IN
         /\ keys' = ks
         /\ hw_pc' = IF ks = {} THEN "check" ELSE "work"
    /\ UNCHANGED <<world, cmpVars, todo, qlock, filequeue, scanner_finished,
                   sw_sort_finished, sw_store, hw_store, processed,
                   max_file_path_len, sc_pc, sw_pc, main_pc, tasks, hashed>>

\* processor.rs:58-64
HwCheckFinished ==
    /\ hw_pc = "check"
    /\ hw_pc' = IF sw_sort_finished THEN "done" ELSE "scan"
    /\ UNCHANGED <<world, cmpVars, todo, qlock, filequeue, scanner_finished,
                   sw_sort_finished, sw_store, hw_store, processed,
                   max_file_path_len, sc_pc, sw_pc, main_pc, keys, tasks, hashed>>

\* processor.rs:66-69: a key's worker copies the bucket and fans out per
\* file; a task holds its copy of the file and the counter value it loaded
\* (-1 before the load)
HwSnapshot ==
    /\ hw_pc \in {"work", "unwind"}
    /\ \E k \in keys :
         LET group == sw_store[k] IN
         /\ keys' = keys \ {k}
         /\ tasks' = IF Len(group) > 1
                     THEN [p \in DOMAIN tasks \cup PathsOf(group) |->
                             IF p \in PathsOf(group)
                             THEN [file |-> CHOOSE f \in Range(group) : f.path = p,
                                   seen |-> -1]
                             ELSE tasks[p]]
                     ELSE tasks
    /\ UNCHANGED <<world, cmpVars, todo, qlock, filequeue, scanner_finished,
                   sw_sort_finished, sw_store, hw_store, processed,
                   max_file_path_len, sc_pc, sw_pc, hw_pc, main_pc, hashed>>

\* processor.rs:70-80 and 100: mark processed, compute the digest (the hash
\* call returned Ok), load the counter
HwFileBegin ==
    /\ hw_pc \in {"work", "unwind"}
    /\ \E p \in DOMAIN tasks :
         /\ tasks[p].seen = -1
         /\ p \notin unreadable
         /\ processed' = SwProcessed(p)
         /\ hashed' = [hashed EXCEPT ![p] = Min(@ + 1, 2)]
         /\ tasks' = [tasks EXCEPT ![p].seen = max_file_path_len]
    /\ UNCHANGED <<world, cmpVars, todo, qlock, filequeue, scanner_finished,
                   sw_sort_finished, sw_store, hw_store,
                   max_file_path_len, sc_pc, sw_pc, hw_pc, main_pc, keys>>

\* processor.rs:100-102 and 83-91: store the counter, upsert into hw_store
HwFileEnd ==
    /\ hw_pc \in {"work", "unwind"}
    /\ \E p \in DOMAIN tasks :
         /\ tasks[p].seen >= 0
         /\ max_file_path_len' =
               IF tasks[p].seen < PathLen(p) THEN PathLen(p) ELSE max_file_path_len
         /\ hw_store' = Upsert(hw_store, Fhash(p), tasks[p].file)
         /\ tasks' = [q \in DOMAIN tasks \ {p} |-> tasks[q]]
    /\ UNCHANGED <<world, cmpVars, todo, qlock, filequeue, scanner_finished,
                   sw_sort_finished, sw_store, processed,
                   sc_pc, sw_pc, hw_pc, main_pc, keys, hashed>>

\* processor.rs:94-96: both for_each calls have returned, next iteration
HwJoin ==
    /\ hw_pc = "work" /\ keys = {} /\ DOMAIN tasks = {}
    /\ hw_pc' = "scan"
    /\ UNCHANGED <<world, cmpVars, todo, qlock, filequeue, scanner_finished,
                   sw_sort_finished, sw_store, hw_store, processed,
                   max_file_path_len, sc_pc, sw_pc, main_pc, keys, tasks, hashed>>

\* ---------------------------------------------------------- orchestrator
\* a start that waits for the size task only
StartReturnEarly ==
    /\ main_pc = "join"
    /\ sw_pc = "done"
    /\ main_pc' = "returned"
    /\ UNCHANGED <<world, cmpVars, todo, qlock, filequeue, scanner_finished,
                   sw_sort_finished, sw_store, hw_store, processed,
                   max_file_path_len, sc_pc, sw_pc, hw_pc, keys, tasks, hashed>>

\* server.rs:133-135: threadpool.join() returns once no job is queued or
\* running, a job that panicked included, and start returns Ok
StartReturn ==
    /\ main_pc = "join"
    /\ sc_pc \in {"done", "off", "panicked"}
    /\ sw_pc = "done"
    /\ hw_pc \in {"done", "panicked"}
    /\ main_pc' = "returned"
    /\ UNCHANGED <<world, cmpVars, todo, qlock, filequeue, scanner_finished,
                   sw_sort_finished, sw_store, hw_store, processed,
                   max_file_path_len, sc_pc, sw_pc, hw_pc, keys, tasks, hashed>>

Scanner == ScLock \/ ScPush \/ ScFinish
Sizewise == SwInsert \/ SwPopNone \/ SwWouldBlock \/ SwCheckFinished \/ SwSetFinished
Hashwise == HwScan \/ HwCheckFinished \/ HwSnapshot \/ HwFileBegin \/ HwFileEnd \/ HwJoin

Next == Scanner \/ Sizewise \/ Hashwise \/ StartReturn

Spec == Init /\ [][Next]_vars

\* each task runs on a pool thread of its own (server.rs:30, 95-129) and
\* start waits in join, so every task that can step eventually does
Fairness ==
    /\ WF_vars(Scanner)
    /\ WF_vars(Sizewise)
    /\ WF_vars(Hashwise)
    /\ WF_vars(StartReturn)

\* the three tasks of a normal-mode run
FairInit == InitShared /\ InitNormal

FairSpec == FairInit /\ [][Next]_vars /\ Fairness

\* --------------------------------------------- a run in which I/O can fail
\* server.rs:96-101: scan returns Err, expect("scanner failed.") panics in
\* the pool thread and line 101 is never reached
ScFail ==
    /\ sc_pc = "scan" /\ qlock = "free"
    /\ sc_pc' = "panicked"
    /\ UNCHANGED <<world, cmpVars, todo, qlock, filequeue, scanner_finished,
                   sw_sort_finished, sw_store, hw_store, processed,
                   max_file_path_len, sw_pc, hw_pc, main_pc, keys, tasks, hashed>>

\* processor.rs:71-76: the file is marked, its hash call returns Err and
\* expect("hashing file failed.") panics in the worker; the panic unwinds
\* through both for_each calls
HwFilePanic ==
    /\ hw_pc \in {"work", "unwind"}
    /\ \E p \in DOMAIN tasks :
         /\ tasks[p].seen = -1
         /\ p \in unreadable
         /\ processed' = SwProcessed(p)
         /\ tasks' = [q \in DOMAIN tasks \ {p} |-> tasks[q]]
    /\ hw_pc' = "unwind"
    /\ UNCHANGED <<world, cmpVars, todo, qlock, filequeue, scanner_finished,
                   sw_sort_finished, sw_store, hw_store,
                   max_file_path_len, sc_pc, sw_pc, main_pc, keys, hashed>>

\* processor.rs:48-93 and server.rs:118-129: the panic leaves hashwise and
\* ends the pool thread; the workers that had not finished by then are
\* given up
HwUnwound ==
    /\ hw_pc = "unwind"
    /\ hw_pc' = "panicked"
    /\ keys' = {}
    /\ tasks' = [p \in {} |-> 0]
    /\ UNCHANGED <<world, cmpVars, todo, qlock, filequeue, scanner_finished,
                   sw_sort_finished, sw_store, hw_store, processed,
                   max_file_path_len, sc_pc, sw_pc, main_pc, hashed>>

\* a normal-mode run in which some files cannot be read
IoInit ==
    /\ InitPipe /\ InitNormal /\ CmpOff
    /\ unreadable \in {X \in SUBSET DOMAIN content : Cardinality(X) <= MaxUnreadable}

IoNext == Next \/ ScFail \/ HwFilePanic \/ HwUnwound

IoSpec == IoInit /\ [][IoNext]_vars

\* ------------------------------------------- the stages run one after the other
\* the unit tests' harness (processor.rs:273-303): the queue holds every
\* file, discovery-finished is true, sizewise is called and returns, then
\* hashwise is called with size-stage-finished true
SeqInit ==
    /\ InitShared
    /\ comparison_mode = FALSE
    /\ todo = {}
    /\ filequeue = Listing(DOMAIN content, "None")
    /\ scanner_finished = TRUE
    /\ sc_pc = "off"

SeqHashwise == sw_pc = "done" /\ Hashwise

SeqNext ==
    \/ SwInsert \/ SwPopNone \/ SwCheckFinished \/ SwSetFinished
    \/ SeqHashwise

SeqSpec == SeqInit /\ [][SeqNext]_vars

\* ---------------------------------------------------- comparison engine
\* no pipeline is running (main.rs:24-41 calls the engine directly)
PipeIdle ==
    /\ todo = {}
    /\ qlock = "free"
    /\ filequeue = <<>>
    /\ scanner_finished = FALSE
    /\ sw_sort_finished = FALSE
    /\ sw_store = EmptyMap
    /\ hw_store = EmptyMap
    /\ processed = {}
    /\ max_file_path_len = 0
    /\ sc_pc = "off" /\ sw_pc = "off" /\ hw_pc = "off" /\ main_pc = "off"
    /\ keys = {}
    /\ tasks = [p \in {} |-> 0]
    /\ hashed = [p \in Paths |-> 0]

\* Processor::new(files): the staging and the target listing in either
\* order, then the untagged files; a path may be listed under both tags
CmpInit ==
    /\ content \in Worlds
    /\ strict = FALSE
    /\ comparison_mode = TRUE
    /\ seed \in Seeds
    /\ PipeIdle
    /\ \E S \in SUBSET DOMAIN content, T \in SUBSET DOMAIN content :
         LET U == DOMAIN content \ (S \cup T) IN
         \/ files = Listing(S, "Staging") \o Listing(T, "Target") \o Listing(U, "None")
         \/ files = Listing(T, "Target") \o Listing(S, "Staging") \o Listing(U, "None")
    /\ unreadable \in {X \in SUBSET DOMAIN content : Cardinality(X) <= MaxUnreadable}
    /\ cmp_pc = "start"
    /\ idx = 1
    /\ duplicates_table = EmptyMap
    /\ visited = {}
    /\ files_to_delete = <<>>
    /\ warnings = <<>>

\* processor.rs:199-201
StagingFiles(group) == SelectSeq(group, LAMBDA f : f.source = "Staging")

\* processor.rs:202-204
TargetFiles(group) == SelectSeq(group, LAMBDA f : f.source = "Target")

\* a group with a member of either side
EitherSide(group) == StagingFiles(group) # <<>> \/ TargetFiles(group) # <<>>

\* processor.rs:207
BothSides(group) == StagingFiles(group) # <<>> /\ TargetFiles(group) # <<>>

\* a group with more than one target member, whatever else it holds
ManyTargets(group) == Len(TargetFiles(group)) > 1

\* processor.rs:207 and 212: the warning is nested in the both-sides branch
ShouldWarn(group) == BothSides(group) /\ Len(TargetFiles(group)) > 1

\* processor.rs:213-219: the header line and one line per target file
InstanceWarnings(targets) ==
    <<[kind |-> "instances", n |-> Len(targets)]>>
      \o [i \in 1..Len(targets) |-> [kind |-> "path", path |-> targets[i].path]]

\* processor.rs:157-162
CmpReturnEmpty ==
    /\ cmp_pc = "start" /\ files = <<>>
    /\ cmp_pc' = "done"
    /\ UNCHANGED <<world, pipeVars, files, unreadable, idx, duplicates_table,
                   visited, files_to_delete, warnings>>

\* processor.rs:164-172
CmpBegin ==
    /\ cmp_pc = "start" /\ files # <<>>
    /\ cmp_pc' = "index"
    /\ UNCHANGED <<world, pipeVars, files, unreadable, idx, duplicates_table,
                   visited, files_to_delete, warnings>>

\* processor.rs:174-187: file.hash(seed) = Ok(hash)
CmpHashOk ==
    /\ cmp_pc = "index" /\ idx <= Len(files)
    /\ files[idx].path \notin unreadable
    /\ duplicates_table' =
          Upsert(duplicates_table, Hash(files[idx].path, seed), files[idx])
    /\ idx' = idx + 1
    /\ UNCHANGED <<world, pipeVars, files, unreadable, cmp_pc,
                   visited, files_to_delete, warnings>>

\* processor.rs:188-190: file.hash(seed) = Err(e), reported on stderr only
CmpHashErr ==
    /\ cmp_pc = "index" /\ idx <= Len(files)
    /\ files[idx].path \in unreadable
    /\ idx' = idx + 1
    /\ UNCHANGED <<world, pipeVars, files, unreadable, cmp_pc, duplicates_table,
                   visited, files_to_delete, warnings>>

\* processor.rs:192-196
CmpIndexed ==
    /\ cmp_pc = "index" /\ idx > Len(files)
    /\ cmp_pc' = "classify"
    /\ UNCHANGED <<world, pipeVars, files, unreadable, idx, duplicates_table,
                   visited, files_to_delete, warnings>>

\* processor.rs:198-222: one group of the table, taken in any order
CmpGroup ==
    /\ cmp_pc = "classify"
    /\ \E d \in DOMAIN duplicates_table \ visited :
         LET group == duplicates_table[d]
             both == BothSides(group)
         IN
         /\ visited' = visited \cup {d}
         /\ files_to_delete' =
               IF both THEN files_to_delete \o StagingFiles(group)
               ELSE files_to_delete
         /\ warnings' =
               IF ShouldWarn(group)
               THEN warnings \o InstanceWarnings(TargetFiles(group))
               ELSE warnings
    /\ UNCHANGED <<world, pipeVars, files, unreadable, cmp_pc, idx,
                   duplicates_table>>

\* processor.rs:224-227
CmpReturn ==
    /\ cmp_pc = "classify" /\ DOMAIN duplicates_table \subseteq visited
    /\ cmp_pc' = "done"
    /\ UNCHANGED <<world, pipeVars, files, unreadable, idx, duplicates_table,
                   visited, files_to_delete, warnings>>

CmpNext ==
    \/ CmpReturnEmpty \/ CmpBegin \/ CmpHashOk \/ CmpHashErr
    \/ CmpIndexed \/ CmpGroup \/ CmpReturn

CmpSpec == CmpInit /\ [][CmpNext]_vars

\* ------------------------------------------------------------ properties
NoDupPaths(store) ==
    \A k \in DOMAIN store :
      \A i, j \in 1..Len(store[k]) :
        store[k][i].path = store[k][j].path => i = j

\* the file has been taken out of the shared collection by the size stage
Popped(p) == p \in DOMAIN content /\ p \notin todo /\ ~ HasPath(filequeue, p)

Bucket(store, k) == IF k \in DOMAIN store THEN store[k] ELSE <<>>

UniqueSize(p) == \A q \in DOMAIN content \ {p} : Size(q) # Size(p)

\* C1: in every reachable state no size group and no hash group holds two
\* members with the same path
C1_NoPathTwice == NoDupPaths(sw_store) /\ NoDupPaths(hw_store)

\* a path was upserted into its hash group a second time
C1_Witness ==
    \E p \in DOMAIN content :
      hashed[p] = 2 /\ p \notin DOMAIN tasks /\ p \in Members(hw_store)

\* C2: every member of the size group under key k has size k, and every
\* file the size stage popped is in the group of its size, so equal sizes
\* share one group and different sizes never do
C2_SizeGroups ==
    /\ \A k \in DOMAIN sw_store :
         \A i \in 1..Len(sw_store[k]) : Size(sw_store[k][i].path) = k
    /\ \A p \in DOMAIN content :
         Popped(p) => p \in PathsOf(Bucket(sw_store, Size(p)))

\* two files of one size and a file of another size have been grouped
C2_Witness ==
    /\ Cardinality(DOMAIN sw_store) = 2
    /\ \E k \in DOMAIN sw_store : Len(sw_store[k]) = 2

\* C3: when the hash stage has returned, size-stage-finished is set, no
\* size bucket qualifies and every member of every size bucket with more
\* than one member is in the hash map
C3_HashStageComplete ==
    hw_pc = "done" =>
      /\ sw_sort_finished
      /\ \A k \in DOMAIN sw_store :
           /\ ~ Qualifies(sw_store[k])
           /\ Len(sw_store[k]) > 1 => PathsOf(sw_store[k]) \subseteq Members(hw_store)

\* C4: when the size stage has returned, the collection is empty and every
\* discovered file is a member of the size group keyed by its size
C4_SizeStageComplete ==
    sw_pc \in {"exit", "done"} =>
      /\ filequeue = <<>>
      /\ todo = {}
      /\ \A p \in DOMAIN content : p \in PathsOf(Bucket(sw_store, Size(p)))

\* C9: every path that reached the hash stage (was handed to a worker, was
\* hashed, or is in the hash map) belongs to a size bucket with at least two
\* members, and a file whose size is unique never reaches the hash stage
C9_OnlySharedSizesHashed ==
    /\ \A p \in Paths :
         (p \in Members(hw_store) \/ p \in DOMAIN tasks \/ hashed[p] > 0)
           => Len(Bucket(sw_store, Size(p))) >= 2
    /\ \A p \in DOMAIN content :
         UniqueSize(p) =>
           hashed[p] = 0 /\ p \notin Members(hw_store) /\ p \notin DOMAIN tasks

\* the run is over, a file of unique size sits alone in its size group and
\* the files sharing a size were hashed
C9_Witness ==
    /\ main_pc = "returned"
    /\ hw_store # EmptyMap
    /\ \E p \in DOMAIN content :
         UniqueSize(p) /\ PathsOf(Bucket(sw_store, Size(p))) = {p}

\* the paths grouped together in the hash map
HashGroups == {PathsOf(hw_store[d]) : d \in DOMAIN hw_store}

\* the keys of the hash groups that hold path p
GroupsOf(p) == {d \in DOMAIN hw_store : HasPath(hw_store[d], p)}

\* the files whose size is shared with another file
SharedSize == {p \in DOMAIN content : ~ UniqueSize(p)}

\* the grouping that the files, the mode and the seed determine: the files of
\* shared size, grouped by digest
ExpectedGroups == {{q \in SharedSize : Fhash(q) = Fhash(p)} : p \in SharedSize}

\* the leading region that initpages_hash reads
Prefix(p) == SubSeq(content[p], 1, Min(InitPages, Size(p)))

SamePrefixOtherTail(p, q) ==
    /\ p # q /\ Size(p) = Size(q)
    /\ Prefix(p) = Prefix(q) /\ content[p] # content[q]

\* C6: every complete run ends with the hash groups that the files, the
\* mode and the seed determine, whatever the interleaving
C6_ScheduleIndependent == main_pc = "returned" => HashGroups = ExpectedGroups

\* C7: after the size stage and then the hash stage, two files of one size
\* that agree on the hashed leading region and differ afterwards share one
\* hash group in prefix mode and sit in two distinct groups in strict mode
C7_PrefixVersusStrict ==
    hw_pc = "done" =>
      \A p, q \in DOMAIN content :
        SamePrefixOtherTail(p, q) =>
          /\ Cardinality(GroupsOf(p)) = 1 /\ Cardinality(GroupsOf(q)) = 1
          /\ (strict => GroupsOf(p) # GroupsOf(q))
          /\ (~ strict => GroupsOf(p) = GroupsOf(q))

\* both stages have run in strict mode over two such files
C7_Witness ==
    /\ hw_pc = "done" /\ strict
    /\ \E p, q \in DOMAIN content :
         SamePrefixOtherTail(p, q) /\ GroupsOf(p) # {} /\ GroupsOf(q) # {}

\* C8: after the size stage and then the hash stage, two files with distinct
\* paths and identical content are members of one and the same hash group,
\* the only group that holds either, in both modes
C8_IdenticalContentOneGroup ==
    hw_pc = "done" =>
      \A p, q \in DOMAIN content :
        (p # q /\ content[p] = content[q]) =>
          /\ GroupsOf(p) = {Fhash(p)}
          /\ GroupsOf(q) = {Fhash(p)}

\* both stages have run over two identical files
C8_Witness ==
    /\ hw_pc = "done"
    /\ \E p, q \in DOMAIN content :
         p # q /\ content[p] = content[q] /\ GroupsOf(p) # {}

\* C5: under fair scheduling start eventually returns, with the discovery
\* task, the size stage and the hash stage all stopped and size-stage-finished
\* set, and a run over no files returns with both maps empty
C5_Terminates ==
    <>(/\ main_pc = "returned"
       /\ sc_pc = "done" /\ sw_pc = "done" /\ hw_pc = "done"
       /\ scanner_finished /\ sw_sort_finished
       /\ (DOMAIN content = {} => sw_store = EmptyMap /\ hw_store = EmptyMap))

\* start has returned after a bucket was hashed, grew, and was hashed again
C5_Witness ==
    /\ main_pc = "returned"
    /\ \E p \in DOMAIN content : hashed[p] = 2 /\ p \in Members(hw_store)

\* the records of the input whose hashing succeeds
Hashable == {f \in Range(files) : f.path \notin unreadable}

\* the records the table keeps: for each path the first one in the input
FirstRecords ==
    {files[i] : i \in {j \in 1..Len(files) :
                         /\ files[j].path \notin unreadable
                         /\ \A k \in 1..(j - 1) : files[k].path # files[j].path}}

\* C10, as claimed: files_to_delete is exactly the set of Staging-tagged
\* files of the input whose full digest equals the full digest of at least
\* one Target-tagged file of the input
C10_DeleteStagingWithTargetCopy ==
    cmp_pc = "done" =>
      Range(files_to_delete) =
        {f \in Hashable :
           /\ f.source = "Staging"
           /\ \E g \in Hashable :
                g.source = "Target" /\ Hash(g.path, seed) = Hash(f.path, seed)}

\* C10, amended: counting each path once, by its first record in the input,
\* files_to_delete is exactly the set of Staging-tagged files whose full
\* digest equals the full digest of at least one Target-tagged file
C10_DeleteStagingWithKeptTargetCopy ==
    cmp_pc = "done" =>
      Range(files_to_delete) =
        {f \in FirstRecords :
           /\ f.source = "Staging"
           /\ \E g \in FirstRecords :
                g.source = "Target" /\ Hash(g.path, seed) = Hash(f.path, seed)}

\* the engine returned exactly one staging file to delete, for an input in
\* which a path is listed under both tags
C10_Witness ==
    /\ cmp_pc = "done"
    /\ Len(files_to_delete) = 1
    /\ \E i, j \in 1..Len(files) : i < j /\ files[i].path = files[j].path

\* the readable records of the input whose full digest is d
WithHash(d) == {f \in Hashable : Hash(f.path, seed) = d}

\* the digests carried by exactly two files of the input, both Target-tagged
\* and neither listed under Staging
TargetPairs ==
    {d \in {Hash(f.path, seed) : f \in Hashable} :
       /\ \A f \in WithHash(d) : f.source = "Target"
       /\ Cardinality({f.path : f \in WithHash(d)}) = 2}

\* some file with digest d is in files_to_delete
Deleted(d) == \E f \in Range(files_to_delete) : Hash(f.path, seed) = d

\* warnings holds a header reporting n instances followed by the line of a
\* file with digest d
WarnedInstances(d, n) ==
    \E i \in 1..(Len(warnings) - 1) :
      /\ warnings[i] = [kind |-> "instances", n |-> n]
      /\ warnings[i + 1].kind = "path"
      /\ Hash(warnings[i + 1].path, seed) = d

\* some line of warnings names a file with digest d
Warned(d) ==
    \E i \in 1..Len(warnings) :
      warnings[i].kind = "path" /\ Hash(warnings[i].path, seed) = d

\* C11, as claimed: when two Target-tagged files have identical content and
\* no Staging-tagged file has that content, nothing of that content is in
\* files_to_delete and the result carries a warning reporting 2 target-side
\* instances
C11_TargetPairWarned ==
    cmp_pc = "done" =>
      \A d \in TargetPairs : ~Deleted(d) /\ WarnedInstances(d, 2)

\* C11, amended: when two Target-tagged files have identical content and no
\* Staging-tagged file has that content, nothing of that content is in
\* files_to_delete and no warning names either file
C11_TargetPairSilent ==
    cmp_pc = "done" =>
      \A d \in TargetPairs : ~Deleted(d) /\ ~Warned(d)

\* the engine returned for an input with two identical Target files and no
\* Staging file of that content
C11_Witness ==
    /\ cmp_pc = "done"
    /\ TargetPairs # {}
    /\ \A f \in Range(files) : f.source = "Target"

\* C12: a file whose hashing fails in the hash stage never aborts the run:
\* the hash stage does not panic, and the failing file is in no hash group
C12_PerFileErrorNeverAborts ==
    /\ hw_pc \notin {"unwind", "panicked"}
    /\ unreadable \cap Members(hw_store) = {}

\* C13: in comparison mode a file whose full hash fails is a member of no
\* group, is never in files_to_delete, and has a warning recorded for it in
\* the result's warnings
C13_HashFailureRecorded ==
    cmp_pc = "done" =>
      \A f \in Range(files) :
        f.path \in unreadable =>
          /\ f.path \notin Members(duplicates_table)
          /\ f \notin Range(files_to_delete)
          /\ \E i \in 1..Len(warnings) :
                warnings[i].kind # "instances" /\ warnings[i].path = f.path

\* the largest width among the files hashed so far, 0 if there is none
HashedWidth ==
    LET W == {PathLen(p) : p \in {q \in Paths : hashed[q] > 0}} \cup {0}
    IN CHOOSE w \in W : \A v \in W : v <= w

\* C14: the max-path-width counter never decreases under concurrent
\* writers, and when the hash stage has returned it equals the largest
\* width among all hashed files (the counter starts at 0)
C14_CounterOnlyIncreases ==
    /\ [][max_file_path_len' >= max_file_path_len]_vars
    /\ [](hw_pc = "done" => max_file_path_len = HashedWidth)

\* C15: a stage failure is fatal and propagates: start never returns Ok
\* after a task panicked, and no stage is left polling for the flag of a
\* producer that died without setting it (the scanner alone sets
\* scanner_finished, so such a size stage polls forever)
C15_StageFailureIsFatal ==
    /\ main_pc = "returned" => sc_pc # "panicked" /\ hw_pc # "panicked"
    /\ ~(sc_pc = "panicked" /\ ~scanner_finished /\ sw_pc \in {"pop", "check", "blocked"})

\* every member of the group carries the tag src
AllTagged(group, src) == \A f \in Range(group) : f.source = src

\* the groups classified so far whose members are all on one side
OneSided ==
    {d \in visited : \/ AllTagged(duplicates_table[d], "Staging")
                     \/ AllTagged(duplicates_table[d], "Target")}

\* the positions of warnings that hold a header line
Headers == {i \in 1..Len(warnings) : warnings[i].kind = "instances"}

\* C16: a group whose members are all Staging-tagged or all Target-tagged
\* contributes nothing: none of its members is in files_to_delete, no line
\* of warnings names one, and every header line belongs to a classified
\* group with members on both sides
C16_OneSidedGroupNoAction ==
    /\ \A d \in OneSided :
         \A f \in Range(duplicates_table[d]) :
           /\ f \notin Range(files_to_delete)
           /\ \A i \in 1..Len(warnings) :
                warnings[i].kind = "path" => warnings[i].path # f.path
    /\ Cardinality(Headers) <= Cardinality(visited \ OneSided)

\* the engine returned after classifying a group of two Staging files, and
\* nothing was deleted or warned
C16_Witness ==
    /\ cmp_pc = "done"
    /\ \E d \in OneSided :
         AllTagged(duplicates_table[d], "Staging") /\ Len(duplicates_table[d]) = 2
    /\ files_to_delete = <<>> /\ warnings = <<>>

\* C17: the hash stage hashes only files not yet processed: the digest of
\* each file is computed at most once in a run, also when a new member
\* arrives in a bucket that was already hashed
C17_DigestAtMostOnce == \A p \in Paths : hashed[p] <= 1

\* C18: when the try_lock of the collection fails, the size stage retries:
\* it never stops in that iteration, whatever the value of the flag
C18_BlockedNeverStops == [][sw_pc = "blocked" => sw_pc' # "exit"]_vars

\* C19: size-stage-finished is set only after discovery-finished is set and
\* the size stage has returned; the hash stage returns only after
\* size-stage-finished is set; start returns only after the discovery, size
\* and hash tasks have all finished; after start has returned neither map
\* changes
C19_TerminationOrder ==
    /\ [](sw_sort_finished => scanner_finished /\ sw_pc = "done")
    /\ [](hw_pc = "done" => sw_sort_finished)
    /\ [](main_pc = "returned" =>
            sc_pc \in {"done", "off"} /\ sw_pc = "done" /\ hw_pc = "done")
    /\ [][main_pc = "returned" => UNCHANGED <<sw_store, hw_store>>]_vars

\* start has returned from a normal-mode run that filled both maps
C19_Witness ==
    /\ main_pc = "returned" /\ ~comparison_mode
    /\ sw_store # EmptyMap /\ hw_store # EmptyMap

\* C20: in comparison mode no discovery task runs and discovery-finished is
\* true from the start; every staging and target file is in the collection,
\* tagged, before the size stage takes it out; when size-stage-finished is
\* set the collection is drained and every file is in the size group of
\* its size
C20_ComparisonPreloaded ==
    comparison_mode =>
      /\ sc_pc = "off" /\ scanner_finished /\ todo = {}
      /\ \A f \in Range(filequeue) : f.source \in {"Staging", "Target"}
      /\ \A k \in DOMAIN sw_store :
           \A f \in Range(sw_store[k]) : f.source \in {"Staging", "Target"}
      /\ \A p \in DOMAIN content :
           HasPath(filequeue, p) \/ p \in PathsOf(Bucket(sw_store, Size(p)))
      /\ sw_sort_finished =>
           /\ filequeue = <<>>
           /\ \A p \in DOMAIN content : p \in PathsOf(Bucket(sw_store, Size(p)))

\* size-stage-finished is set in a comparison-mode run whose size map holds
\* a group with a Staging and a Target member
C20_Witness ==
    /\ comparison_mode /\ sw_sort_finished
    /\ \E k \in DOMAIN sw_store :
         \E f, g \in Range(sw_store[k]) :
           f.source = "Staging" /\ g.source = "Target"

\* every key of the map before the step is a key after it, and every member
\* of its group is still a member
Grows(before, after) ==
    \A k \in DOMAIN before :
      k \in DOMAIN after /\ PathsOf(before[k]) \subseteq PathsOf(after[k])

\* C21: size groups and hash groups only grow: no step removes a member
\* from a group or a key from either map
C21_GroupsOnlyGrow ==
    [][Grows(sw_store, sw_store') /\ Grows(hw_store, hw_store')]_vars

\* a size group has grown to three members and a hash group to two
C21_Witness ==
    /\ \E k \in DOMAIN sw_store : Len(sw_store[k]) = 3
    /\ \E d \in DOMAIN hw_store : Len(hw_store[d]) >= 2

\* C22: comparison mode never marks the last copy of a content for
\* deletion: for every file in files_to_delete the input holds a
\* Target-tagged file with another path and the same full digest that is
\* not in files_to_delete, also when a path is listed under both tags
C22_NeverDeletesLastCopy ==
    \A f \in Range(files_to_delete) :
      \E g \in Hashable :
        /\ g.source = "Target"
        /\ g.path # f.path
        /\ Hash(g.path, seed) = Hash(f.path, seed)
        /\ g.path \notin PathsOf(files_to_delete)

\* the engine returned a file to delete whose content is also the content
\* of a path listed under both tags
C22_Witness ==
    /\ cmp_pc = "done"
    /\ \E f \in Range(files_to_delete) :
         \E i, j \in 1..Len(files) :
           /\ i < j /\ files[i].path = files[j].path
           /\ files[i].path \notin unreadable
           /\ Hash(files[i].path, seed) = Hash(f.path, seed)

\* the shared collection after the step is the collection before it, or
\* the collection without its last record
PoppedOrSame(before, after) ==
    \/ after = before
    \/ before # <<>> /\ after = SubSeq(before, 1, Len(before) - 1)

\* C23: each stage writes only its own output: a step of the size stage
\* only removes from the shared collection, only adds to the size map, and
\* leaves the hash map and the width counter unchanged; a step of the hash
\* stage leaves the size map and the shared collection unchanged and only
\* adds to the hash map
C23_StagesWriteOwnOutput ==
    [][/\ Sizewise =>
            /\ PoppedOrSame(filequeue, filequeue')
            /\ Grows(sw_store, sw_store')
            /\ UNCHANGED <<hw_store, max_file_path_len>>
       /\ Hashwise =>
            /\ UNCHANGED <<sw_store, filequeue>>
            /\ Grows(hw_store, hw_store')]_vars

\* both stages have written while files are still waiting in the collection
C23_Witness ==
    /\ filequeue # <<>>
    /\ sw_store # EmptyMap /\ hw_store # EmptyMap
    /\ max_file_path_len > 0
====
